---- MODULE Spec2Model ----
(***************************************************************************)
(* Knit_Graph: loops (nodes), stitch edges with metadata, the yarn         *)
(* registry, and the course-partitioning algorithm get_courses, together   *)
(* with the cast_on / jersey_knit generator that drives them.              *)
(*                                                                         *)
(* Loop and Yarn objects are identified by their ids.  The mutable part of *)
(* a Loop (its parent stack) is the variable parent_loops, the mutable     *)
(* part of a Yarn (its ordered loop ids) is the variable yarn_loops.       *)
(***************************************************************************)
EXTENDS Integers, Sequences, FiniteSets, TLC

\* ---------------------------------------------------------------- bounds
MaxId == 2
MaxStitches == 2
MaxWidth == 4
MaxHeight == 4

\* ------------------------------------------------------------ input sets
LoopIds == 0..MaxId
YarnIds == {"yarn"}
\* stack_position=None (the default) is written -1; no caller of
\* connect_loops passes a negative position
NoPosition == -1
\* the None that get_stitch_edge returns
None == [none |-> TRUE]
\* pull_direction, depth, parent_offset as the generators pass them: a knit,
\* a purl, and the two crossings of a cable
StitchArgs ==
    {[pull_direction |-> "BtF", depth |-> 0, parent_offset |-> 0],
     [pull_direction |-> "FtB", depth |-> -1, parent_offset |-> 1],
     [pull_direction |-> "BtF", depth |-> 1, parent_offset |-> -2]}
\* stack_position: the default and the two positions lace passes
StackPositions == {NoPosition, 0, 1}

VARIABLES
    graph_nodes,    \* self.graph nodes: loop id -> the "loop" payload
    graph_edges,    \* self.graph edges: records parent, child + attributes
    loops,          \* self.loops: loop id -> Loop
    last_loop_id,   \* self.last_loop_id
    yarns,          \* self.yarns: the registered yarn ids
    parent_loops,   \* Loop.parent_loops of every created loop
    yarn_loops,     \* the ordered loop ids of every Yarn
    op,             \* the last call made on the graph
    args,           \* its arguments
    err,            \* how it ended: "none" or the failed assertion
    result,         \* what get_courses returned
    gen             \* the locals of the running generator (jersey_knit)

vars == <<graph_nodes, graph_edges, loops, last_loop_id, yarns, parent_loops,
          yarn_loops, op, args, err, result, gen>>

knit_graph == <<graph_nodes, graph_edges, loops, last_loop_id, yarns,
                parent_loops, yarn_loops>>

\* ---------------------------------------------------------------- helpers
Max(S) == CHOOSE x \in S : \A y \in S : y <= x
Min(S) == CHOOSE x \in S : \A y \in S : x <= y
Range(s) == {s[i] : i \in 1..Len(s)}

RECURSIVE SumLen(_, _)
SumLen(f, S) ==
    IF S = {} THEN 0
    ELSE LET x == CHOOSE y \in S : TRUE
         IN Len(f[x]) + SumLen(f, S \ {x})

\* a faulty variant: sorted(..., reverse=True)
RECURSIVE sorted_reverse(_)
sorted_reverse(S) ==
    IF S = {} THEN <<>> ELSE <<Max(S)>> \o sorted_reverse(S \ {Max(S)})

\* sorted(...) of a set of ints
RECURSIVE sorted(_)
sorted(S) == IF S = {} THEN <<>> ELSE <<Min(S)>> \o sorted(S \ {Min(S)})

\* a function extended or overwritten at one key (dict[k] = v)
SetItem(f, k, v) == [x \in (DOMAIN f) \cup {k} |-> IF x = k THEN v ELSE f[x]]

\* Loop(loop_id, yarn)
Loop(loop_id, yarn) == [loop_id |-> loop_id, yarn |-> yarn]

NoResult == [err |-> "none", courses |-> <<>>]
Idle == [pc |-> "idle"]

\* ------------------------------------------------------- Knit_Graph.__init__
EmptyGraph ==
    /\ graph_nodes = <<>>
    /\ graph_edges = {}
    /\ loops = <<>>
    /\ last_loop_id = -1
    /\ yarns = {}
    /\ parent_loops = <<>>
    /\ yarn_loops = [y \in YarnIds |-> <<>>]

Init ==
    /\ EmptyGraph
    /\ op = "init"
    /\ args = <<>>
    /\ err = "none"
    /\ result = NoResult
    /\ gen = Idle

\* ------------------------------------------------ Knit_Graph.__contains__
InGraph(loop_id) == loop_id \in DOMAIN graph_nodes

\* Yarn.__contains__: the loop is one of the yarn's loops
OnYarn(yarn, loop_id) == loop_id \in Range(yarn_loops[yarn])

\* the id a yarn gives a loop it mints for this graph
new_loop_id == last_loop_id + 1

\* ---------------------------------------------------- Knit_Graph.add_yarn
add_yarn_yarns(yarn) == yarns \cup {yarn}

add_yarn(yarn) ==
    /\ yarns' = add_yarn_yarns(yarn)
    /\ UNCHANGED <<graph_nodes, graph_edges, loops, last_loop_id,
                   parent_loops, yarn_loops>>
    /\ op' = "add_yarn"
    /\ args' = [yarn |-> yarn]
    /\ err' = "none"
    /\ result' = NoResult

\* ---------------------------------------------------- Knit_Graph.add_loop
\* lines 97-98: the loop's yarn is registered when it is not yet known
add_loop_yarns(loop) ==
    IF loop.yarn \notin yarns THEN add_yarn_yarns(loop.yarn) ELSE yarns

\* a faulty variant: the loop is put on its yarn without asking whether it is there
add_loop_yarn_loops_always(loop) ==
    [yarn_loops EXCEPT ![loop.yarn] = Append(@, loop.loop_id)]

\* lines 101-102: the loop is appended to its yarn when it is not on it
add_loop_yarn_loops(loop) ==
    IF ~OnYarn(loop.yarn, loop.loop_id)
    THEN [yarn_loops EXCEPT ![loop.yarn] = Append(@, loop.loop_id)]
    ELSE yarn_loops

\* a faulty variant: last_loop_id is set to the id of the loop added last
add_loop_last_loop_id_latest(loop) == loop.loop_id

\* lines 105-106
add_loop_last_loop_id(loop) ==
    IF loop.loop_id > last_loop_id THEN loop.loop_id ELSE last_loop_id

\* the graph after add_loop(loop); a new Loop object starts with no parents
add_loop_effect(loop) ==
    /\ graph_nodes' = SetItem(graph_nodes, loop.loop_id, loop)
    /\ yarns' = add_loop_yarns(loop)
    /\ yarn_loops' = add_loop_yarn_loops(loop)
    /\ last_loop_id' = add_loop_last_loop_id(loop)
    /\ loops' = SetItem(loops, loop.loop_id, loop)
    /\ parent_loops' = IF loop.loop_id \in DOMAIN parent_loops
                       THEN parent_loops
                       ELSE SetItem(parent_loops, loop.loop_id, <<>>)
    /\ UNCHANGED graph_edges

add_loop(loop) ==
    /\ add_loop_effect(loop)
    /\ op' = "add_loop"
    /\ args' = [loop |-> loop]
    /\ err' = "none"
    /\ result' = NoResult

\* Yarn.add_loop_to_end(knit_graph=...): a new loop with the next id is put
\* at the end of the yarn and registered in the graph with add_loop
add_loop_to_end(yarn) ==
    /\ add_loop_effect(Loop(new_loop_id, yarn))
    /\ op' = "add_loop_to_end"
    /\ args' = [loop |-> Loop(new_loop_id, yarn)]
    /\ err' = "none"
    /\ result' = NoResult

\* ------------------------------------------------ Knit_Graph.connect_loops
Edge(parent, child, pull_direction, depth, parent_offset) ==
    [parent |-> parent, child |-> child, pull_direction |-> pull_direction,
     depth |-> depth, parent_offset |-> parent_offset]

\* a faulty variant: a second edge is kept beside the first (a multigraph)
add_edge_multi(edges, e) == edges \cup {e}

\* a faulty variant: the edge is stored in both directions (an undirected graph)
add_edge_undirected(edges, e) ==
    {x \in edges : ~({x.parent, x.child} = {e.parent, e.child})}
        \cup {e, [e EXCEPT !.parent = e.child, !.child = e.parent]}

\* DiGraph.add_edge: one edge per ordered pair, its attributes the latest
add_edge(edges, e) ==
    {x \in edges : ~(x.parent = e.parent /\ x.child = e.child)} \cup {e}

\* Loop.add_parent_loop: list.insert at the position, list.append without
add_parent_loop(stack, parent, stack_position) ==
    IF stack_position = NoPosition THEN Append(stack, parent)
    ELSE IF stack_position >= Len(stack) THEN Append(stack, parent)
    ELSE SubSeq(stack, 1, stack_position) \o <<parent>>
             \o SubSeq(stack, stack_position + 1, Len(stack))

\* lines 130-131: the assertion that fails, "none" when both hold
connect_loops_err(parent_loop_id, child_loop_id) ==
    IF ~InGraph(parent_loop_id) THEN "parent loop is not in this graph"
    ELSE IF ~InGraph(child_loop_id) THEN "child loop is not in this graph"
    ELSE "none"

\* a faulty variant: the edge is added before the assertions are made
connect_loops_edges_unchecked(e) == add_edge(graph_edges, e)

\* line 136, reached when no assertion failed
connect_loops_edges(e) ==
    IF connect_loops_err(e.parent, e.child) = "none"
    THEN add_edge(graph_edges, e)
    ELSE graph_edges

\* a faulty variant: the stack position is ignored, the parent goes on top
connect_loops_parent_loops_top(parent_loop_id, child_loop_id, stack_position) ==
    IF connect_loops_err(parent_loop_id, child_loop_id) = "none"
    THEN [parent_loops EXCEPT ![child_loop_id] = Append(@, parent_loop_id)]
    ELSE parent_loops

\* lines 139-143, reached when no assertion failed
connect_loops_parent_loops(parent_loop_id, child_loop_id, stack_position) ==
    IF connect_loops_err(parent_loop_id, child_loop_id) = "none"
    THEN [parent_loops EXCEPT ![child_loop_id] =
              add_parent_loop(@, parent_loop_id, stack_position)]
    ELSE parent_loops

connect_loops(parent_loop_id, child_loop_id, pull_direction, stack_position, depth, parent_offset) ==
    /\ graph_edges' = connect_loops_edges(
           Edge(parent_loop_id, child_loop_id, pull_direction, depth,
                parent_offset))
    /\ parent_loops' = connect_loops_parent_loops(
           parent_loop_id, child_loop_id, stack_position)
    /\ UNCHANGED <<graph_nodes, loops, last_loop_id, yarns, yarn_loops>>
    /\ op' = "connect_loops"
    /\ args' = [parent_loop_id |-> parent_loop_id,
                child_loop_id |-> child_loop_id,
                pull_direction |-> pull_direction,
                stack_position |-> stack_position,
                depth |-> depth, parent_offset |-> parent_offset]
    /\ err' = connect_loops_err(parent_loop_id, child_loop_id)
    /\ result' = NoResult

\* ---------------------------------------------- Knit_Graph.get_stitch_edge
\* the edges parent -> child the graph holds
stitch_edges(parent, child) ==
    {e \in graph_edges : e.parent = parent /\ e.child = child}

\* lines 256-262 with stitch_property=None: the edge's attribute mapping
get_stitch_edge(parent, child) ==
    IF stitch_edges(parent, child) = {} THEN None
    ELSE LET e == CHOOSE x \in stitch_edges(parent, child) : TRUE
         IN [pull_direction |-> e.pull_direction, depth |-> e.depth,
             parent_offset |-> e.parent_offset]

\* graph.predecessors(loop_id)
predecessors(loop_id) == {e.parent : e \in {x \in graph_edges : x.child = loop_id}}

\* -------------------------------------------------------------- Course
EmptyCourse == [loops_by_id_in_order |-> <<>>, loops_by_id |-> {}]

\* Course.__contains__
Course_contains(course, loop_id) == loop_id \in course.loops_by_id

\* lines 24-25: no parent of the loop is in the course already
Course_add_loop_ok(course, loop_id) ==
    \A i \in 1..Len(parent_loops[loop_id]) :
        ~Course_contains(course, parent_loops[loop_id][i])

\* lines 26-28 with index=None
Course_add_loop(course, loop_id) ==
    [loops_by_id_in_order |-> Append(course.loops_by_id_in_order, loop_id),
     loops_by_id |-> course.loops_by_id \cup {loop_id}]

\* lines 203-205: the loops of one course added in their order; ok is FALSE
\* when an assertion of Course.add_loop failed
RECURSIVE populate(_, _)
populate(course, loop_ids) ==
    IF loop_ids = <<>> THEN [ok |-> TRUE, course |-> course]
    ELSE IF ~Course_add_loop_ok(course, Head(loop_ids))
         THEN [ok |-> FALSE, course |-> course]
         ELSE populate(Course_add_loop(course, Head(loop_ids)), Tail(loop_ids))

\* ------------------------------------------------ Knit_Graph.get_courses
\* lines 156-168: the locals before the first loop
scan_init ==
    [course_to_loop_dict |-> <<>>, current_course_set |-> {},
     current_course |-> <<>>, course |-> 0]

\* lines 172-178
no_parents_in_course(st, loop_id) ==
    predecessors(loop_id) \cap st.current_course_set = {}

\* a faulty variant: the loop that closes a course is left out of the next one
scan_step_drop(st, loop_id) ==
    IF no_parents_in_course(st, loop_id)
    THEN [st EXCEPT !.current_course_set = @ \cup {loop_id},
                    !.current_course = Append(@, loop_id)]
    ELSE [course_to_loop_dict |-> Append(st.course_to_loop_dict, st.current_course),
          current_course_set |-> {},
          current_course |-> <<>>,
          course |-> st.course + 1]

\* a faulty variant: a course is never closed
scan_step_never_close(st, loop_id) ==
    [st EXCEPT !.current_course_set = @ \cup {loop_id},
               !.current_course = Append(@, loop_id)]

\* a faulty variant: the loop is put at the front of the open course
scan_step_front(st, loop_id) ==
    IF no_parents_in_course(st, loop_id)
    THEN [st EXCEPT !.current_course_set = @ \cup {loop_id},
                    !.current_course = <<loop_id>> \o @]
    ELSE [course_to_loop_dict |-> Append(st.course_to_loop_dict, st.current_course),
          current_course_set |-> {loop_id},
          current_course |-> <<loop_id>>,
          course |-> st.course + 1]

\* a faulty variant: the set of the open course is not reset when a course closes
scan_step_keep_set(st, loop_id) ==
    IF no_parents_in_course(st, loop_id)
    THEN [st EXCEPT !.current_course_set = @ \cup {loop_id},
                    !.current_course = Append(@, loop_id)]
    ELSE [course_to_loop_dict |-> Append(st.course_to_loop_dict, st.current_course),
          current_course_set |-> st.current_course_set \cup {loop_id},
          current_course |-> <<loop_id>>,
          course |-> st.course + 1]

\* lines 172-192: one iteration of the loop over the sorted ids
scan_step(st, loop_id) ==
    IF no_parents_in_course(st, loop_id)
    THEN [st EXCEPT !.current_course_set = @ \cup {loop_id},
                    !.current_course = Append(@, loop_id)]
    ELSE [course_to_loop_dict |-> Append(st.course_to_loop_dict, st.current_course),
          current_course_set |-> {loop_id},
          current_course |-> <<loop_id>>,
          course |-> st.course + 1]

\* lines 171-192: the loop
RECURSIVE scan(_, _)
scan(st, loop_ids) ==
    IF loop_ids = <<>> THEN st
    ELSE scan(scan_step(st, Head(loop_ids)), Tail(loop_ids))

\* lines 171-195: course_to_loop_dict after the last course is recorded
course_to_loop_dict ==
    LET st == scan(scan_init, sorted(DOMAIN graph_nodes))
    IN Append(st.course_to_loop_dict, st.current_course)

\* lines 198-207: the Course objects, or the failure of an assertion
get_courses_result ==
    LET filled == [k \in 1..Len(course_to_loop_dict) |->
                       populate(EmptyCourse, course_to_loop_dict[k])]
    IN IF \E k \in 1..Len(filled) : ~filled[k].ok
       THEN [err |-> "AssertionError", courses |-> <<>>]
       ELSE [err |-> "none",
             courses |-> [k \in 1..Len(filled) |-> filled[k].course]]

get_courses ==
    /\ result' = get_courses_result
    /\ err' = get_courses_result.err
    /\ op' = "get_courses"
    /\ args' = <<>>
    /\ UNCHANGED knit_graph

\* ------------------------------------------------- calls made by any caller
\* the stitches made so far: every connect_loops call adds one parent
Stitches == SumLen(parent_loops, DOMAIN parent_loops)

AddYarn ==
    /\ \E yarn \in YarnIds : add_yarn(yarn)
    /\ UNCHANGED gen

\* a new loop of any id, or a loop of the graph added again
AddLoop ==
    /\ \E loop_id \in LoopIds, yarn \in YarnIds :
           /\ InGraph(loop_id) => graph_nodes[loop_id] = Loop(loop_id, yarn)
           /\ add_loop(Loop(loop_id, yarn))
    /\ UNCHANGED gen

AddLoopToEnd ==
    /\ new_loop_id <= MaxId
    /\ \E yarn \in YarnIds : add_loop_to_end(yarn)
    /\ UNCHANGED gen

\* connect_loops with the defaults of its signature, on any two ids
ConnectLoops ==
    /\ Stitches < MaxStitches
    /\ \E parent_loop_id \in LoopIds, child_loop_id \in LoopIds :
           connect_loops(parent_loop_id, child_loop_id, "BtF", NoPosition, 0, 0)
    /\ UNCHANGED gen

GetCourses ==
    /\ get_courses
    /\ UNCHANGED gen

Next == AddYarn \/ AddLoop \/ AddLoopToEnd \/ ConnectLoops \/ GetCourses

Spec == Init /\ [][Next]_vars

\* ------------- callers that set the stitch attributes and stack positions
\* loops minted by the yarn, connected with every choice of the arguments
ConnectLoopsStitch ==
    /\ Stitches < MaxStitches
    /\ \E parent_loop_id \in DOMAIN graph_nodes, child_loop_id \in DOMAIN graph_nodes,
          stitch \in StitchArgs, stack_position \in StackPositions :
           connect_loops(parent_loop_id, child_loop_id, stitch.pull_direction,
                         stack_position, stitch.depth, stitch.parent_offset)
    /\ UNCHANGED gen

NextStitch == AddLoopToEnd \/ ConnectLoopsStitch

SpecStitch == Init /\ [][NextStitch]_vars

\* ------------------------------------------------- cast_on and jersey_knit
\* generate_knit_graphs.py: the locals of jersey_knit(width, height) are
\* gen.width, gen.height, gen.r, gen.last_course, gen.new_course; gen.k
\* counts the iterations of the loop that is running
InitJersey ==
    /\ EmptyGraph
    /\ op = "init"
    /\ args = <<>>
    /\ err = "none"
    /\ result = NoResult
    /\ \E width \in 1..MaxWidth, height \in 1..MaxHeight :
           gen = [pc |-> "add_yarn", width |-> width, height |-> height,
                  r |-> 1, k |-> 0, last_course |-> <<>>, new_course |-> <<>>]

\* reversed(last_course)[k], k from 0
reversed_at(course, k) == course[Len(course) - k]

\* cast_on, lines 8-10
cast_on_add_yarn ==
    /\ gen.pc = "add_yarn"
    /\ add_yarn("yarn")
    /\ gen' = [gen EXCEPT !.pc = "cast_on"]

\* cast_on, lines 12-13
cast_on_loop ==
    /\ gen.pc = "cast_on"
    /\ gen.k < gen.width
    /\ add_loop_to_end("yarn")
    /\ gen' = [gen EXCEPT !.k = @ + 1]

\* cast_on, line 14, and jersey_knit, line 24
cast_on_return ==
    /\ gen.pc = "cast_on"
    /\ gen.k = gen.width
    /\ gen' = [gen EXCEPT !.pc = "row", !.last_course = yarn_loops["yarn"],
                          !.r = 1]
    /\ UNCHANGED <<knit_graph, op, args, err, result>>

\* jersey_knit, lines 25-26 and 32
jersey_row ==
    /\ gen.pc = "row"
    /\ gen' = IF gen.r < gen.height
              THEN [gen EXCEPT !.pc = "mint", !.new_course = <<>>, !.k = 0]
              ELSE [gen EXCEPT !.pc = "return"]
    /\ UNCHANGED <<knit_graph, op, args, err, result>>

\* jersey_knit, lines 27-29
jersey_mint ==
    /\ gen.pc = "mint"
    /\ gen.k < gen.width
    /\ add_loop_to_end("yarn")
    /\ gen' = [gen EXCEPT !.pc = "connect",
                          !.new_course = Append(@, new_loop_id)]

\* jersey_knit, line 30
jersey_connect ==
    /\ gen.pc = "connect"
    /\ connect_loops(reversed_at(gen.last_course, gen.k),
                     gen.new_course[Len(gen.new_course)], "BtF", NoPosition, 0, 0)
    /\ gen' = [gen EXCEPT !.pc = "mint", !.k = @ + 1]

\* jersey_knit, line 31
jersey_row_end ==
    /\ gen.pc = "mint"
    /\ gen.k = gen.width
    /\ gen' = [gen EXCEPT !.pc = "row", !.last_course = gen.new_course,
                          !.r = @ + 1]
    /\ UNCHANGED <<knit_graph, op, args, err, result>>

\* get_courses on the graph jersey_knit returned
jersey_get_courses ==
    /\ gen.pc = "return"
    /\ get_courses
    /\ gen' = [gen EXCEPT !.pc = "done"]

NextJersey ==
    \/ cast_on_add_yarn
    \/ cast_on_loop
    \/ cast_on_return
    \/ jersey_row
    \/ jersey_mint
    \/ jersey_connect
    \/ jersey_row_end
    \/ jersey_get_courses

SpecJersey == InitJersey /\ [][NextJersey]_vars

\* =============================================================== claims
\* the loop ids of a course, and of all the courses one after the other
course_ids(k) == result.courses[k].loops_by_id_in_order

RECURSIVE all_course_ids(_)
all_course_ids(n) == IF n = 0 THEN <<>> ELSE all_course_ids(n - 1) \o course_ids(n)

\* a parent of the loop: a graph predecessor or a member of its parent stack
parents(loop_id) == predecessors(loop_id) \cup Range(parent_loops[loop_id])

Returned == op = "get_courses" /\ result.err = "none"

\* C1 as stated: after get_courses, no course holds a loop together with one
\* of its parents, whatever the ids of parent and child.
C1_NoParentInCourse ==
    Returned =>
        \A k \in 1..Len(result.courses) : \A loop_id \in Range(course_ids(k)) :
            \A parent_id \in parents(loop_id) :
                parent_id \notin result.courses[k].loops_by_id

\* C1 amended: after get_courses, no course holds a loop together with a
\* parent of it whose id is smaller than the loop's.
C1_NoSmallerParentInCourse ==
    Returned =>
        \A k \in 1..Len(result.courses) : \A loop_id \in Range(course_ids(k)) :
            \A parent_id \in parents(loop_id) :
                parent_id < loop_id => parent_id \notin result.courses[k].loops_by_id

\* get_courses closed a course at a loop that has a smaller and a larger parent
C1_Witness ==
    /\ Returned
    /\ Len(result.courses) >= 2
    /\ \E loop_id \in DOMAIN graph_nodes :
           /\ \E parent_id \in parents(loop_id) : parent_id < loop_id
           /\ \E parent_id \in parents(loop_id) : parent_id > loop_id

\* C2: get_courses returns, and the loop ids of the courses it returns, taken
\* together, are the node ids of the graph, each exactly once.
C2_Partition ==
    op = "get_courses" =>
        /\ result.err = "none"
        /\ Len(all_course_ids(Len(result.courses))) = Cardinality(DOMAIN graph_nodes)
        /\ Range(all_course_ids(Len(result.courses))) = DOMAIN graph_nodes
        /\ \A k \in 1..Len(result.courses) :
               result.courses[k].loops_by_id = Range(course_ids(k))

C2_Witness ==
    /\ Returned
    /\ Len(result.courses) >= 2
    /\ Cardinality(DOMAIN graph_nodes) = MaxId + 1

\* C3: for jersey_knit(width, height), get_courses returns height courses of
\* width loops each, course k (from 0) holding k*width .. k*width+width-1.
C3_JerseyCourses ==
    gen.pc = "done" =>
        /\ result.err = "none"
        /\ Len(result.courses) = gen.height
        /\ \A k \in 1..gen.height :
               course_ids(k) = [i \in 1..gen.width |-> (k - 1) * gen.width + i - 1]

C3_Witness ==
    /\ gen.pc = "done"
    /\ gen.width >= 3
    /\ gen.height >= 3
    /\ Len(result.courses) >= 3

\* C4: when a connect_loops call with stack position 0 or 1 gives a child its
\* second parent, different from the first, the parent passed at position 0
\* is first in the child's stack and the parent passed at position 1 is
\* second, whichever of the two calls came last.
C4_TwoParentsInPositionOrder ==
    (op = "connect_loops" /\ err = "none") =>
        LET stack == parent_loops[args.child_loop_id]
        IN (Len(stack) = 2 /\ stack[1] # stack[2]) =>
               /\ Range(stack) = predecessors(args.child_loop_id)
               /\ args.stack_position = 0 => stack[1] = args.parent_loop_id
               /\ args.stack_position = 1 => stack[2] = args.parent_loop_id

\* the parent at position 0 was connected after the parent at position 1
C4_Witness ==
    /\ op = "connect_loops"
    /\ err = "none"
    /\ args.stack_position = 0
    /\ Len(parent_loops[args.child_loop_id]) = 2
    /\ parent_loops[args.child_loop_id][1] = args.parent_loop_id
    /\ parent_loops[args.child_loop_id][2] # args.parent_loop_id
    /\ args.child_loop_id \notin Range(parent_loops[args.child_loop_id])

\* what get_stitch_edge must return after the last connect_loops call
args_edge ==
    [pull_direction |-> args.pull_direction, depth |-> args.depth,
     parent_offset |-> args.parent_offset]

\* C5 as stated: after connect_loops on registered loops the edge carries the
\* attributes of this call, it is the only edge parent -> child, and the
\* parent is in the child's stack at the index stack_position (last when no
\* position was given).
C5_EdgeAndRequestedPosition ==
    (op = "connect_loops" /\ err = "none") =>
        LET stack == parent_loops[args.child_loop_id]
        IN /\ get_stitch_edge(args.parent_loop_id, args.child_loop_id) = args_edge
           /\ Cardinality(stitch_edges(args.parent_loop_id, args.child_loop_id)) = 1
           /\ args.stack_position = NoPosition =>
                  stack[Len(stack)] = args.parent_loop_id
           /\ args.stack_position # NoPosition =>
                  /\ args.stack_position + 1 <= Len(stack)
                  /\ stack[args.stack_position + 1] = args.parent_loop_id

\* C5 amended: as stated, but the parent is at the index stack_position only
\* when the stack held that many parents before the call, and last otherwise.
C5_EdgeAndClampedPosition ==
    (op = "connect_loops" /\ err = "none") =>
        LET stack == parent_loops[args.child_loop_id]
        IN /\ get_stitch_edge(args.parent_loop_id, args.child_loop_id) = args_edge
           /\ Cardinality(stitch_edges(args.parent_loop_id, args.child_loop_id)) = 1
           /\ args.stack_position = NoPosition =>
                  stack[Len(stack)] = args.parent_loop_id
           /\ args.stack_position # NoPosition =>
                  stack[IF args.stack_position <= Len(stack) - 1
                        THEN args.stack_position + 1
                        ELSE Len(stack)] = args.parent_loop_id

\* the same pair connected a second time, below the first
C5_Witness ==
    /\ op = "connect_loops"
    /\ err = "none"
    /\ args.stack_position = 0
    /\ parent_loops[args.child_loop_id]
           = <<args.parent_loop_id, args.parent_loop_id>>
    /\ args.parent_loop_id # args.child_loop_id

LoopNotFoundError ==
    {"parent loop is not in this graph", "child loop is not in this graph"}

\* C6: a connect_loops call that names a parent or a child that is no node of
\* the graph fails as a loop that was not found and changes nothing.
C6_UnknownLoopFails ==
    [][(/\ op' = "connect_loops"
        /\ \/ ~InGraph(args'.parent_loop_id)
           \/ ~InGraph(args'.child_loop_id))
       => (err' \in LoopNotFoundError /\ UNCHANGED knit_graph)]_vars

\* the child was unknown, in a graph that has loops and a stitch
C6_Witness ==
    /\ op = "connect_loops"
    /\ err = "child loop is not in this graph"
    /\ graph_edges # {}

\* the pairs parent, child of a set of edges
edge_pairs(edges) == {<<e.parent, e.child>> : e \in edges}

\* the pairs a, b with a path of at most 2^n edges from a to b
RECURSIVE paths(_, _)
paths(pairs, n) ==
    IF n = 0 THEN pairs
    ELSE LET half == paths(pairs, n - 1)
         IN half \cup {<<q[1][1], q[2][2]>> :
                          q \in {x \in half \X half : x[1][2] = x[2][1]}}

\* no loop is its own ancestor
Acyclic(edges) ==
    \A pair \in paths(edge_pairs(edges), MaxId + 1) : pair[1] # pair[2]

\* every edge goes from a smaller id to a larger one
Ascending(edges) == \A e \in edges : e.parent < e.child

\* C7 as stated: in every state no loop is its own ancestor.
C7_NoCycle == Acyclic(graph_edges)

\* C7 amended: connect_loops with parent_id < child_id, on a graph whose
\* edges all go from a smaller to a larger id, adds no edge that goes the
\* other way, and so leaves no loop its own ancestor.
C7_AscendingStaysAcyclic ==
    [][(/\ op' = "connect_loops"
        /\ args'.parent_loop_id < args'.child_loop_id
        /\ Ascending(graph_edges))
       => (Ascending(graph_edges') /\ Acyclic(graph_edges'))]_vars

\* a chain of two stitches made by such calls
C7_Witness ==
    /\ op = "connect_loops"
    /\ err = "none"
    /\ args.parent_loop_id < args.child_loop_id
    /\ Ascending(graph_edges)
    /\ \E e \in graph_edges : e.child = args.parent_loop_id

\* C8: add_loop of a loop that is a node of the graph already changes nothing:
\* not the nodes, the edges, the loop table, the yarns, the loops of the
\* yarn, last_loop_id or a parent stack.
C8_AddLoopAgain ==
    [][(op' = "add_loop" /\ InGraph(args'.loop.loop_id))
       => UNCHANGED knit_graph]_vars

\* add_loop was called for a loop that is not the last of its yarn
C8_Witness ==
    /\ op = "add_loop"
    /\ Len(yarn_loops[args.loop.yarn]) >= 2
    /\ args.loop.loop_id # yarn_loops[args.loop.yarn][Len(yarn_loops[args.loop.yarn])]

\* C9: last_loop_id is the largest id added, -1 when none was; no call
\* lowers it (or removes a node), connect_loops and add_yarn leave it alone.
C9_LastLoopId ==
    /\ [](/\ last_loop_id = Max(DOMAIN graph_nodes \cup {-1})
          /\ (last_loop_id = -1) <=> (DOMAIN graph_nodes = {}))
    /\ [][/\ last_loop_id' >= last_loop_id
          /\ (DOMAIN graph_nodes) \subseteq (DOMAIN graph_nodes')
          /\ op' \in {"connect_loops", "add_yarn"} => last_loop_id' = last_loop_id]_vars

\* a new loop was added whose id is below last_loop_id
C9_Witness ==
    /\ op = "add_loop"
    /\ args.loop.loop_id < last_loop_id
    /\ args.loop.loop_id = yarn_loops[args.loop.yarn][Len(yarn_loops[args.loop.yarn])]

\* C10: the ids of a course ascend, and every id of a course is below every
\* id of the next course.
C10_Ascending ==
    Returned =>
        /\ \A k \in 1..Len(result.courses) :
               \A i, j \in 1..Len(course_ids(k)) :
                   i < j => course_ids(k)[i] < course_ids(k)[j]
        /\ \A k \in 1..(Len(result.courses) - 1) :
               \A a \in Range(course_ids(k)), b \in Range(course_ids(k + 1)) : a < b

C10_Witness ==
    /\ Returned
    /\ Len(result.courses) = 2
    /\ Len(course_ids(1)) = 2

\* every loop's parent stack holds its graph predecessors and nothing else
StacksArePredecessors ==
    \A loop_id \in DOMAIN graph_nodes :
        Range(parent_loops[loop_id]) = predecessors(loop_id)

\* C11: on a graph built by add_loop and connect_loops, where every parent
\* stack holds the loop's predecessors, get_courses returns: no assertion of
\* Course.add_loop fails, at least one Course comes back, and the graph
\* without loops gives one empty Course.
C11_GetCoursesReturns ==
    (op = "get_courses" /\ StacksArePredecessors) =>
        /\ err = "none"
        /\ result.err = "none"
        /\ Len(result.courses) >= 1
        /\ (DOMAIN graph_nodes = {}) => (result.courses = <<EmptyCourse>>)

\* get_courses returned on a graph where a loop has two parents, one of them
\* with a larger id than the loop and one a loop that is its own parent
C11_Witness ==
    /\ op = "get_courses"
    /\ StacksArePredecessors
    /\ \E loop_id \in DOMAIN graph_nodes :
           /\ Len(parent_loops[loop_id]) = 2
           /\ \E parent_id \in predecessors(loop_id) : parent_id > loop_id
           /\ loop_id \in predecessors(loop_id)

====
